---- MODULE Spec2Model ----
(***************************************************************************)
(* GH200 support utilities of SimpleTuner: the UVM hint layer              *)
(* (simpletuner/gh200/uvm.py, audio_support_snippet.py), the in-memory     *)
(* data backend (simpletuner/gh200/in_memory_backend.py) and the           *)
(* diagnostic script (gh200_diagnostic.py).                                *)
(*                                                                         *)
(* Python values are encoded as follows.                                   *)
(*   Optional[x]  : <<>> for None, <<x>> otherwise                         *)
(*   str          : a sequence of one-character strings                    *)
(*   bytes        : a sequence of small naturals                           *)
(*   exceptions   : a result record carries raised / error fields          *)
(***************************************************************************)
EXTENDS Integers, Sequences, FiniteSets, TLC

VARIABLES
    uvm_hint_override,  \* uvm.py module global _UVM_HINT_OVERRIDE
    environ,            \* os.environ.get("SIMPLETUNER_GH200_ENABLE_UVM_HINTS")
    torch_cuda,         \* what the torch build offers (fixed for a process)
    batch,              \* the training batch handed to the batch functions
    last_override_arg,  \* history: the argument of the latest set_uvm_hint_override
    lastCall,           \* the most recent call of the UVM layer and what it did
    fs,                 \* the entries below the dataset directory
    backend,            \* the fields of the GH200InMemoryBackend instance
    phase,              \* unbuilt, loading (inside _load_dataset), ready, failed
    error,              \* the exception that ended the constructor, "" for none
    storage,            \* self._storage
    pending,            \* the submitted files whose result is not stored yet
    files_read,         \* how many files the workers have read
    expected,           \* history: key -> the bytes staged or last written under it
    lastOp,             \* the most recent backend call and its result
    writes,             \* how many writing calls were made
    restored,           \* the outcome of from_instance_representation, if called
    reader,             \* a thread inside read, exists, open_file or list_files
    writer,             \* a thread inside write or delete
    lock,               \* the owner of self._lock, "" when free
    diag                \* the diagnostic script: where it is and what it has done

uvmVars == <<uvm_hint_override, environ, torch_cuda, batch, last_override_arg, lastCall>>

backendVars == <<fs, backend, phase, error, storage, pending, files_read, expected,
                 lastOp, writes, restored>>

concVars == <<reader, writer, lock>>

diagVars == <<diag>>

nonUvmVars == <<backendVars, concVars, diagVars>>

vars == <<uvmVars, backendVars, concVars, diagVars>>

None == <<>>
Some(x) == <<x>>
IsNone(o) == Len(o) = 0

(***************************************************************************)
(* str.strip() and str.lower() on character sequences.                     *)
(***************************************************************************)
Whitespace == {" ", "\t", "\n"}

UpperLetters == <<"A","B","C","D","E","F","G","H","I","J","K","L","M",
                  "N","O","P","Q","R","S","T","U","V","W","X","Y","Z">>
LowerLetters == <<"a","b","c","d","e","f","g","h","i","j","k","l","m",
                  "n","o","p","q","r","s","t","u","v","w","x","y","z">>

LowerChar(c) ==
    IF \E i \in DOMAIN UpperLetters : UpperLetters[i] = c
    THEN LowerLetters[CHOOSE i \in DOMAIN UpperLetters : UpperLetters[i] = c]
    ELSE c

UpperChar(c) ==
    IF \E i \in DOMAIN LowerLetters : LowerLetters[i] = c
    THEN UpperLetters[CHOOSE i \in DOMAIN LowerLetters : LowerLetters[i] = c]
    ELSE c

str_lower(s) == [i \in DOMAIN s |-> LowerChar(s[i])]

str_upper(s) == [i \in DOMAIN s |-> UpperChar(s[i])]

RECURSIVE str_lstrip(_)
str_lstrip(s) ==
    IF s # <<>> /\ Head(s) \in Whitespace THEN str_lstrip(Tail(s)) ELSE s

RECURSIVE str_rstrip(_)
str_rstrip(s) ==
    IF s # <<>> /\ s[Len(s)] \in Whitespace
    THEN str_rstrip(SubSeq(s, 1, Len(s) - 1))
    ELSE s

str_strip(s) == str_rstrip(str_lstrip(s))

(***************************************************************************)
(* uvm.py: the opt-in flag.                                                *)
(***************************************************************************)
TruthyFlags == { <<"1">>, <<"t","r","u","e">>, <<"y","e","s">>, <<"o","n">> }

\* os.environ.get(name, "")
environ_get(env) == IF IsNone(env) THEN <<>> ELSE env[1]

gh200_uvm_enabled_truthy_override(override, env) ==
    IF ~IsNone(override) /\ override[1] THEN TRUE
    ELSE str_lower(str_strip(environ_get(env))) \in TruthyFlags

gh200_uvm_enabled(override, env) ==
    IF ~IsNone(override) THEN override[1]
    ELSE str_lower(str_strip(environ_get(env))) \in TruthyFlags

\* set_uvm_hint_override(value): the new value of the module global
set_uvm_hint_override(current, value) == value

(***************************************************************************)
(* Tensors and the CUDA entry points the hint functions reach.             *)
(* A tensor carries what the code asks of it: is_cuda, the byte count of   *)
(* its untyped storage and element_size() * numel(); -1 stands for "the    *)
(* lookup raises".                                                         *)
(***************************************************************************)
cudaCpuDeviceId == -1

CpuTensor   == [id |-> 1, is_cuda |-> FALSE, storage_nbytes |-> 8, numel_bytes |-> 8]
GpuTensor   == [id |-> 2, is_cuda |-> TRUE, storage_nbytes |-> 8, numel_bytes |-> 8]
EmptyTensor == [id |-> 3, is_cuda |-> TRUE, storage_nbytes |-> 0, numel_bytes |-> 0]
ViewTensor  == [id |-> 4, is_cuda |-> TRUE, storage_nbytes |-> -1, numel_bytes |-> 4]
OpaqueTensor == [id |-> 5, is_cuda |-> TRUE, storage_nbytes |-> -1, numel_bytes |-> -1]

Tensors == {CpuTensor, GpuTensor, EmptyTensor, ViewTensor, OpaqueTensor}

\* What the CUDA side does during one call of the layer.
PreferOutcomes ==
    [ advise    : {"ok", "raise_first", "raise_second"},  \* torch.cuda.memory_advise
      cudart    : {"ok", "raise"},                        \* torch.cuda.cudart()
      ptr       : {"ok", "storage", "raise"},             \* data_ptr(), storage().data_ptr()
      memadvise : {"ok", "raise_first", "raise_second"},  \* cudart.cudaMemAdvise
      prefetch  : {"ok"},                                 \* cudart.cudaMemPrefetchAsync
      device    : {"ok", "raise"} ]                       \* torch.cuda.current_device()

PrefetchOutcomes ==
    [ advise    : {"ok"},
      cudart    : {"ok", "raise"},
      ptr       : {"ok", "storage", "raise"},
      memadvise : {"ok"},
      prefetch  : {"ok", "raise"},
      device    : {"ok", "raise"} ]

BatchOutcomes ==
    [ advise    : {"ok", "raise_first", "raise_second"},
      cudart    : {"ok", "raise"},
      ptr       : {"ok", "storage", "raise"},
      memadvise : {"ok", "raise_first", "raise_second"},
      prefetch  : {"ok", "raise"},
      device    : {"ok", "raise"} ]

CudaCall(api, advice, target, raises) ==
    [api |-> api, advice |-> advice, target |-> target, raises |-> raises]

Returned(value, calls) == [ret |-> value, raised |-> FALSE, calls |-> calls]
Raised(calls) == [ret |-> FALSE, raised |-> TRUE, calls |-> calls]

element_span_bytes(tensor) ==
    IF tensor.storage_nbytes > 0 THEN tensor.storage_nbytes
    ELSE IF tensor.numel_bytes >= 0 THEN tensor.numel_bytes
    ELSE 0

\* _cudart(): TRUE when a cudart handle came back, FALSE for None
cudart(plat, oc) == plat.has_cudart /\ oc.cudart = "ok"

current_cuda_device(plat, oc) ==
    IF oc.device = "raise" THEN 0 ELSE plat.current_device

\* tensor.data_ptr(), else tensor.storage().data_ptr(): TRUE when one answered
data_ptr_found(oc) == oc.ptr \in {"ok", "storage"}

\* lines 85-89: the body of the first try block
memory_advise_block(tensor, prefer_cpu, plat, oc) ==
    IF ~plat.has_memory_advise
    THEN [done |-> FALSE, exc |-> FALSE, calls |-> <<>>]
    ELSE LET location == IF prefer_cpu THEN cudaCpuDeviceId
                         ELSE current_cuda_device(plat, oc)
             first  == CudaCall("torch.cuda.memory_advise", "set_preferred_location",
                                location, oc.advise = "raise_first")
             second == CudaCall("torch.cuda.memory_advise", "set_accessed_by",
                                current_cuda_device(plat, oc), oc.advise = "raise_second")
         IN  IF oc.advise = "raise_first"
             THEN [done |-> FALSE, exc |-> TRUE, calls |-> <<first>>]
             ELSE IF oc.advise = "raise_second"
             THEN [done |-> FALSE, exc |-> TRUE, calls |-> <<first, second>>]
             ELSE [done |-> TRUE, exc |-> FALSE, calls |-> <<first, second>>]

\* lines 110-118: the body of the last try block
cuda_mem_advise_block(tensor, prefer_cpu, plat, oc) ==
    LET target == IF prefer_cpu THEN cudaCpuDeviceId
                  ELSE current_cuda_device(plat, oc)
        first  == CudaCall("cudaMemAdvise", "cudaMemAdviseSetPreferredLocation",
                           target, oc.memadvise = "raise_first")
        second == CudaCall("cudaMemAdvise", "cudaMemAdviseSetAccessedBy",
                           current_cuda_device(plat, oc), oc.memadvise = "raise_second")
    IN  IF oc.memadvise = "raise_first"
        THEN [done |-> FALSE, exc |-> TRUE, calls |-> <<first>>]
        ELSE IF oc.memadvise = "raise_second"
        THEN [done |-> FALSE, exc |-> TRUE, calls |-> <<first, second>>]
        ELSE [done |-> TRUE, exc |-> FALSE, calls |-> <<first, second>>]

apply_preferred_location_no_cuda_check(tensor, prefer_cpu, override, env, plat, oc) ==
    IF ~gh200_uvm_enabled(override, env) THEN Returned(FALSE, <<>>)
    ELSE LET a == memory_advise_block(tensor, prefer_cpu, plat, oc)
         IN  IF a.done THEN Returned(TRUE, a.calls) ELSE Returned(FALSE, a.calls)

apply_preferred_location_uncaught(tensor, prefer_cpu, override, env, plat, oc) ==
    IF ~gh200_uvm_enabled(override, env) THEN Returned(FALSE, <<>>)
    ELSE IF ~plat.is_available \/ ~tensor.is_cuda THEN Returned(FALSE, <<>>)
    ELSE LET a == memory_advise_block(tensor, prefer_cpu, plat, oc)
         IN  IF a.done THEN Returned(TRUE, a.calls)
             ELSE IF a.exc THEN Raised(a.calls)
             ELSE Returned(FALSE, a.calls)

apply_preferred_location(tensor, prefer_cpu, override, env, plat, oc) ==
    IF ~gh200_uvm_enabled(override, env) THEN Returned(FALSE, <<>>)
    ELSE IF ~plat.is_available \/ ~tensor.is_cuda THEN Returned(FALSE, <<>>)
    ELSE LET a == memory_advise_block(tensor, prefer_cpu, plat, oc)
         IN  IF a.done THEN Returned(TRUE, a.calls)
             \* the exception, if any, is logged and swallowed
             ELSE IF ~cudart(plat, oc) THEN Returned(FALSE, a.calls)
             ELSE IF element_span_bytes(tensor) <= 0 THEN Returned(FALSE, a.calls)
             ELSE IF ~data_ptr_found(oc) THEN Returned(FALSE, a.calls)
             ELSE LET m == cuda_mem_advise_block(tensor, prefer_cpu, plat, oc)
                  IN  Returned(m.done, a.calls \o m.calls)

prefer_cpu_residency(tensor, override, env, plat, oc) ==
    apply_preferred_location(tensor, TRUE, override, env, plat, oc)

prefer_gpu_residency(tensor, override, env, plat, oc) ==
    apply_preferred_location(tensor, FALSE, override, env, plat, oc)

\* device: Optional[int]
prefetch_to_device(tensor, device, override, env, plat, oc) ==
    IF ~gh200_uvm_enabled(override, env) THEN Returned(FALSE, <<>>)
    ELSE IF ~plat.is_available \/ ~tensor.is_cuda THEN Returned(FALSE, <<>>)
    ELSE LET dev == IF IsNone(device) THEN current_cuda_device(plat, oc) ELSE device[1]
         IN  IF ~cudart(plat, oc) THEN Returned(FALSE, <<>>)
             ELSE IF element_span_bytes(tensor) <= 0 THEN Returned(FALSE, <<>>)
             ELSE IF ~data_ptr_found(oc) THEN Returned(FALSE, <<>>)
             ELSE Returned(oc.prefetch = "ok",
                           << CudaCall("cudaMemPrefetchAsync", "", dev,
                                       oc.prefetch = "raise") >>)

(***************************************************************************)
(* Batch values.  A value is a tensor, a Mapping, a list, a tuple, None or *)
(* something else (a string, a set, ...); items holds a container's        *)
(* members (for a Mapping: its values(), in order).                        *)
(***************************************************************************)
NoTensor == [id |-> 0, is_cuda |-> FALSE, storage_nbytes |-> 0, numel_bytes |-> 0]

TensorValue(t)  == [kind |-> "tensor", tensor |-> t, items |-> <<>>]
MappingValue(s) == [kind |-> "mapping", tensor |-> NoTensor, items |-> s]
ListValue(s)    == [kind |-> "list", tensor |-> NoTensor, items |-> s]
TupleValue(s)   == [kind |-> "tuple", tensor |-> NoTensor, items |-> s]
OtherValue(s)   == [kind |-> "other", tensor |-> NoTensor, items |-> s]
NoneValue       == [kind |-> "none", tensor |-> NoTensor, items |-> <<>>]

\* batch.get(key)
batch_get(b, key) == IF key \in DOMAIN b THEN b[key] ELSE NoneValue

RECURSIVE Flatten(_)
Flatten(seqs) == IF seqs = <<>> THEN <<>> ELSE Head(seqs) \o Flatten(Tail(seqs))

RECURSIVE iter_tensors(_)
iter_tensors(obj) ==
    IF obj.kind = "tensor" THEN << obj.tensor >>
    ELSE IF obj.kind \in {"mapping", "list", "tuple"}
    THEN Flatten([i \in DOMAIN obj.items |-> iter_tensors(obj.items[i])])
    ELSE <<>>

Hint(fn, tensor, r) ==
    [fn |-> fn, tensor |-> tensor, ret |-> r.ret, raised |-> r.raised, calls |-> r.calls]

\* A statement sequence stops at the first exception that escapes.
RECURSIVE UntilRaised(_)
UntilRaised(hints) ==
    IF hints = <<>> THEN <<>>
    ELSE IF Head(hints).raised THEN << Head(hints) >>
    ELSE << Head(hints) >> \o UntilRaised(Tail(hints))

TextKeys_without_pooled == <<"encoder_hidden_states", "text_embeddings">>

TextKeys == <<"encoder_hidden_states", "text_embeddings", "pooled_prompt_embeds">>

latent_hints(b, override, env, plat, oc) ==
    LET ts == iter_tensors(batch_get(b, "latents"))
    IN  [i \in DOMAIN ts |->
            Hint("prefer_cpu_residency", ts[i],
                 prefer_cpu_residency(ts[i], override, env, plat, oc))]

text_hints(b, key, override, env, plat, oc) ==
    LET ts == iter_tensors(batch_get(b, key))
    IN  Flatten([i \in DOMAIN ts |->
            << Hint("prefer_gpu_residency", ts[i],
                    prefer_gpu_residency(ts[i], override, env, plat, oc)),
               Hint("prefetch_to_device", ts[i],
                    prefetch_to_device(ts[i], None, override, env, plat, oc)) >>])

\* the hint calls the function makes, in order
optimize_batch_for_gh200(b, override, env, plat, oc) ==
    IF ~gh200_uvm_enabled(override, env) THEN <<>>
    ELSE UntilRaised(
            latent_hints(b, override, env, plat, oc)
            \o Flatten([k \in DOMAIN TextKeys |->
                           text_hints(b, TextKeys[k], override, env, plat, oc)]))

AUDIO_KEYS == <<"audio_latents", "waveform", "audio_samples", "audio_features">>

audio_pair(t, override, env, plat, oc) ==
    << Hint("prefer_cpu_residency", t, prefer_cpu_residency(t, override, env, plat, oc)),
       Hint("prefetch_to_device", t, prefetch_to_device(t, None, override, env, plat, oc)) >>

audio_key_hints(value, override, env, plat, oc) ==
    IF value.kind = "tensor"
    THEN IF value.tensor.is_cuda
         THEN audio_pair(value.tensor, override, env, plat, oc) ELSE <<>>
    ELSE IF value.kind = "mapping"
    THEN Flatten([i \in DOMAIN value.items |->
            IF value.items[i].kind = "tensor" /\ value.items[i].tensor.is_cuda
            THEN audio_pair(value.items[i].tensor, override, env, plat, oc)
            ELSE <<>>])
    ELSE <<>>

apply_audio_uvm_hints(b, override, env, plat, oc) ==
    IF ~gh200_uvm_enabled(override, env) THEN <<>>
    ELSE UntilRaised(Flatten([k \in DOMAIN AUDIO_KEYS |->
            audio_key_hints(batch_get(b, AUDIO_KEYS[k]), override, env, plat, oc)]))

(***************************************************************************)
(* The UVM layer as a state machine: the flag, the environment, and calls. *)
(***************************************************************************)
Str1     == <<"1">>
StrTrue  == <<"t","r","u","e">>
StrYes   == <<"y","e","s">>
StrOn    == <<"o","n">>

EnvValues ==
    { None, Some(<<>>), Some(Str1), Some(<<" ","1","\n">>), Some(StrTrue),
      Some(<<"T","R","U","E">>), Some(<<"\t","T","r","u","e"," ">>), Some(StrYes),
      Some(<<"Y","e","s">>), Some(StrOn), Some(<<" ","O","N">>), Some(<<"0">>),
      Some(<<"f","a","l","s","e">>), Some(<<"o"," ","n">>), Some(<<"1","1">>),
      Some(<<"y">>), Some(<<"o","f","f">>) }

HintEnvValues == { None, Some(<<" ","O","N">>), Some(<<"0">>) }

OverrideValues == { None, Some(TRUE), Some(FALSE) }

Platforms ==
    [ is_available : BOOLEAN, has_memory_advise : BOOLEAN, has_cudart : BOOLEAN,
      current_device : {1} ]

EmptyBatch == << >>
SimpleBatch ==
    ("latents" :> TensorValue(GpuTensor))
    @@ ("encoder_hidden_states" :> TensorValue(ViewTensor))
NestedBatch ==
    ("latents" :> ListValue(<< TensorValue(GpuTensor),
                               MappingValue(<< TensorValue(ViewTensor) >>) >>))
    @@ ("text_embeddings" :> TupleValue(<< TensorValue(EmptyTensor) >>))
    @@ ("pixel_values" :> TensorValue(GpuTensor))
PooledBatch ==
    ("latents" :> NoneValue)
    @@ ("pooled_prompt_embeds" :>
            MappingValue(<< ListValue(<< TensorValue(OpaqueTensor),
                                         TensorValue(CpuTensor) >>) >>))
    @@ ("encoder_hidden_states" :> OtherValue(<< TensorValue(GpuTensor) >>))
AudioBatch ==
    ("audio_latents" :> TensorValue(GpuTensor))
    @@ ("waveform" :> MappingValue(<< TensorValue(ViewTensor),
                                      ListValue(<< TensorValue(GpuTensor) >>),
                                      TensorValue(CpuTensor) >>))
    @@ ("audio_samples" :> TensorValue(CpuTensor))
    @@ ("latents" :> TensorValue(CpuTensor))
SharedBatch ==
    ("latents" :> TensorValue(GpuTensor))
    @@ ("text_embeddings" :> TensorValue(GpuTensor))

Batches == {EmptyBatch, SimpleBatch, NestedBatch, PooledBatch, AudioBatch, SharedBatch}

\* A call is made when no result is pending; its result stays in lastCall until the
\* caller has taken it (the layer is called from one thread, one call at a time).
NoCall == [op |-> "none", ret |-> FALSE, raised |-> FALSE, hints |-> <<>>]

Call(op, ret, raised, hints) ==
    [op |-> op, ret |-> ret, raised |-> raised, hints |-> hints]

HintCall(fn, tensor, r) == Call(fn, r.ret, r.raised, << Hint(fn, tensor, r) >>)

BatchCall(op, hints) ==
    Call(op, FALSE, hints # <<>> /\ hints[Len(hints)].raised, hints)

UvmInit ==
    /\ uvm_hint_override = None
    /\ last_override_arg = None
    /\ environ = None
    /\ torch_cuda \in Platforms
    /\ batch = EmptyBatch
    /\ lastCall = NoCall

SetUvmHintOverride(value) ==
    /\ lastCall = NoCall
    /\ uvm_hint_override' = set_uvm_hint_override(uvm_hint_override, value)
    /\ last_override_arg' = value
    /\ UNCHANGED <<environ, torch_cuda, batch, lastCall, nonUvmVars>>

\* os.environ[...] = value, or del os.environ[...] for None
SetEnviron(value) ==
    /\ lastCall = NoCall
    /\ environ' = value
    /\ UNCHANGED <<uvm_hint_override, last_override_arg, torch_cuda, batch, lastCall,
                   nonUvmVars>>

Gh200UvmEnabled ==
    /\ lastCall = NoCall
    /\ lastCall' = Call("gh200_uvm_enabled",
                        gh200_uvm_enabled(uvm_hint_override, environ), FALSE, <<>>)
    /\ UNCHANGED <<uvm_hint_override, last_override_arg, environ, torch_cuda, batch,
                   nonUvmVars>>

PreferCpuResidency(tensor, oc) ==
    /\ lastCall = NoCall
    /\ lastCall' = HintCall("prefer_cpu_residency", tensor,
                       prefer_cpu_residency(tensor, uvm_hint_override, environ,
                                            torch_cuda, oc))
    /\ UNCHANGED <<uvm_hint_override, last_override_arg, environ, torch_cuda, batch,
                   nonUvmVars>>

PreferGpuResidency(tensor, oc) ==
    /\ lastCall = NoCall
    /\ lastCall' = HintCall("prefer_gpu_residency", tensor,
                       prefer_gpu_residency(tensor, uvm_hint_override, environ,
                                            torch_cuda, oc))
    /\ UNCHANGED <<uvm_hint_override, last_override_arg, environ, torch_cuda, batch,
                   nonUvmVars>>

PrefetchToDevice(tensor, device, oc) ==
    /\ lastCall = NoCall
    /\ lastCall' = HintCall("prefetch_to_device", tensor,
                       prefetch_to_device(tensor, device, uvm_hint_override, environ,
                                          torch_cuda, oc))
    /\ UNCHANGED <<uvm_hint_override, last_override_arg, environ, torch_cuda, batch,
                   nonUvmVars>>

\* the training loop produces the next batch
NextBatch(b) ==
    /\ lastCall = NoCall
    /\ batch' = b
    /\ UNCHANGED <<uvm_hint_override, last_override_arg, environ, torch_cuda, lastCall,
                   nonUvmVars>>

OptimizeBatchForGh200(oc) ==
    /\ lastCall = NoCall
    /\ lastCall' = BatchCall("optimize_batch_for_gh200",
                       optimize_batch_for_gh200(batch, uvm_hint_override, environ,
                                                torch_cuda, oc))
    /\ UNCHANGED <<uvm_hint_override, last_override_arg, environ, torch_cuda, batch,
                   nonUvmVars>>

ApplyAudioUvmHints(oc) ==
    /\ lastCall = NoCall
    /\ lastCall' = BatchCall("apply_audio_uvm_hints",
                       apply_audio_uvm_hints(batch, uvm_hint_override, environ,
                                             torch_cuda, oc))
    /\ UNCHANGED <<uvm_hint_override, last_override_arg, environ, torch_cuda, batch,
                   nonUvmVars>>

ReturnToCaller ==
    /\ lastCall # NoCall
    /\ lastCall' = NoCall
    /\ UNCHANGED <<uvm_hint_override, last_override_arg, environ, torch_cuda, batch,
                   nonUvmVars>>

NextFlag ==
    \/ \E value \in OverrideValues : SetUvmHintOverride(value)
    \/ \E value \in EnvValues : SetEnviron(value)
    \/ Gh200UvmEnabled
    \/ ReturnToCaller

NextUvm ==
    \/ \E value \in OverrideValues : SetUvmHintOverride(value)
    \/ \E value \in HintEnvValues : SetEnviron(value)
    \/ \E t \in Tensors, oc \in PreferOutcomes : PreferCpuResidency(t, oc)
    \/ \E t \in Tensors, oc \in PreferOutcomes : PreferGpuResidency(t, oc)
    \/ \E t \in Tensors, d \in {None, Some(0)}, oc \in PrefetchOutcomes :
            PrefetchToDevice(t, d, oc)
    \/ \E b \in Batches : NextBatch(b)
    \/ \E oc \in BatchOutcomes : OptimizeBatchForGh200(oc)
    \/ \E oc \in BatchOutcomes : ApplyAudioUvmHints(oc)
    \/ ReturnToCaller

(***************************************************************************)
(* Properties of the UVM layer.                                            *)
(***************************************************************************)
HintsEnabled == gh200_uvm_enabled(uvm_hint_override, environ)

HintFunctions == {"prefer_cpu_residency", "prefer_gpu_residency", "prefetch_to_device"}
BatchFunctions == {"optimize_batch_for_gh200", "apply_audio_uvm_hints"}

\* C1: a call of prefer_cpu_residency, prefer_gpu_residency or prefetch_to_device made
\* while gh200_uvm_enabled() is false, or CUDA is unavailable, or on a tensor that is
\* not a CUDA tensor returns False and issues no CUDA call; optimize_batch_for_gh200
\* and apply_audio_uvm_hints issue no hint at all while gh200_uvm_enabled() is false.
C1_NothingUnlessEnabled ==
    /\ \A i \in DOMAIN lastCall.hints :
          LET h == lastCall.hints[i]
          IN  (~HintsEnabled \/ ~torch_cuda.is_available \/ ~h.tensor.is_cuda)
                  => (h.fn \in HintFunctions /\ h.ret = FALSE /\ ~h.raised
                      /\ h.calls = <<>>)
    /\ (lastCall.op \in BatchFunctions /\ ~HintsEnabled) => lastCall.hints = <<>>

\* C1 witness: hints are disabled, CUDA and torch.cuda.memory_advise are there, and
\* prefer_gpu_residency has been called on a CUDA tensor.
C1_Witness ==
    /\ lastCall.op = "prefer_gpu_residency"
    /\ ~HintsEnabled
    /\ torch_cuda.is_available /\ torch_cuda.has_memory_advise
    /\ lastCall.hints[1].tensor.is_cuda

\* C2: gh200_uvm_enabled() returns the most recent override when that is not None,
\* whatever the environment says; with the most recent override None (or none ever
\* set) it returns true exactly when the environment value, stripped and lower-cased,
\* is one of 1, true, yes, on.
EnvironmentSaysYes ==
    /\ ~IsNone(environ)
    /\ str_lower(str_strip(environ[1])) \in {Str1, StrTrue, StrYes, StrOn}

C2_OverrideThenEnvironment ==
    lastCall.op = "gh200_uvm_enabled" =>
        lastCall.ret = IF ~IsNone(last_override_arg) THEN last_override_arg[1]
                       ELSE EnvironmentSaysYes

\* C2 witness: the latest set_uvm_hint_override passed None, the variable holds
\* "\tTrue " and gh200_uvm_enabled() has answered true.
C2_Witness ==
    /\ lastCall.op = "gh200_uvm_enabled"
    /\ IsNone(last_override_arg)
    /\ environ = Some(<<"\t","T","r","u","e"," ">>)
    /\ lastCall.ret

\* C3: the hint functions never let an exception of a CUDA call escape; they return
\* True exactly when an attempt went through (the last CUDA call made did not raise)
\* and False otherwise, and with a byte span of 0 no cudart call is made.
C3_BestEffort ==
    /\ ~lastCall.raised
    /\ \A i \in DOMAIN lastCall.hints :
          LET h == lastCall.hints[i]
          IN  /\ ~h.raised
              /\ h.ret <=> (h.calls # <<>> /\ ~h.calls[Len(h.calls)].raises)
              /\ element_span_bytes(h.tensor) <= 0 =>
                    \A j \in DOMAIN h.calls : h.calls[j].api = "torch.cuda.memory_advise"

\* C3 witness: torch.cuda.memory_advise raised and the cudaMemAdvise fallback then
\* went through, so prefer_cpu_residency returned True.
C3_Witness ==
    /\ lastCall.op = "prefer_cpu_residency"
    /\ lastCall.ret
    /\ Len(lastCall.hints[1].calls) >= 3
    /\ lastCall.hints[1].calls[1].raises

\* C9: with hints enabled optimize_batch_for_gh200 gives every tensor nested (through
\* mappings, lists and tuples) under latents one prefer-CPU hint, every tensor nested
\* under encoder_hidden_states, text_embeddings or pooled_prompt_embeds one prefer-GPU
\* hint directly followed by a prefetch to the current device, nothing else any hint,
\* skips a missing key without error and leaves the batch as it was.
RECURSIVE SumOver(_, _, _)
SumOver(items, t, n) ==
    IF n = 0 THEN 0
    ELSE SumOver(items, t, n - 1)
         + (IF items[n].kind = "tensor"
            THEN (IF items[n].tensor = t THEN 1 ELSE 0)
            ELSE IF items[n].kind \in {"mapping", "list", "tuple"}
            THEN SumOver(items[n].items, t, Len(items[n].items))
            ELSE 0)

\* how often tensor t is nested under the batch key
TimesUnder(key, t) ==
    IF key \in DOMAIN batch THEN SumOver(<< batch[key] >>, t, 1) ELSE 0

HintCount(fn, t) ==
    Cardinality({i \in DOMAIN lastCall.hints :
                    lastCall.hints[i].fn = fn /\ lastCall.hints[i].tensor = t})

C9_Policy ==
    (lastCall.op = "optimize_batch_for_gh200" /\ HintsEnabled) =>
        /\ ~lastCall.raised
        /\ \A t \in Tensors :
              /\ HintCount("prefer_cpu_residency", t) = TimesUnder("latents", t)
              /\ HintCount("prefer_gpu_residency", t)
                    = TimesUnder("encoder_hidden_states", t)
                      + TimesUnder("text_embeddings", t)
                      + TimesUnder("pooled_prompt_embeds", t)
        /\ \A i \in DOMAIN lastCall.hints :
              LET h == lastCall.hints[i]
              IN  /\ h.tensor \in Tensors
                  /\ h.fn = "prefer_gpu_residency" =>
                        /\ i + 1 \in DOMAIN lastCall.hints
                        /\ lastCall.hints[i + 1].fn = "prefetch_to_device"
                        /\ lastCall.hints[i + 1].tensor = h.tensor
                  /\ h.fn = "prefetch_to_device" =>
                        /\ i - 1 \in DOMAIN lastCall.hints
                        /\ lastCall.hints[i - 1].fn = "prefer_gpu_residency"
                        /\ lastCall.hints[i - 1].tensor = h.tensor
                        /\ \A j \in DOMAIN h.calls :
                              h.calls[j].target \in {torch_cuda.current_device, 0}

C9_PlacementPolicy ==
    /\ []C9_Policy
    /\ [][lastCall'.op = "optimize_batch_for_gh200" => batch' = batch]_vars

\* C9 witness: hints are enabled and optimize_batch_for_gh200 has run on the batch
\* with nested latents, a tuple of text embeddings and an unrelated key: two
\* prefer-CPU hints, then one prefer-GPU hint and its prefetch.
C9_Witness ==
    /\ lastCall.op = "optimize_batch_for_gh200"
    /\ HintsEnabled
    /\ batch = NestedBatch
    /\ Len(lastCall.hints) = 4
    /\ lastCall.hints[2].ret

(***************************************************************************)
(* in_memory_backend.py: paths, the dataset directory, compression.        *)
(*                                                                         *)
(* A path is [dirs, stem, ext]: the directory components (an absolute path *)
(* starts with "/"), the file name without its suffix, and the suffix      *)
(* without its dot as a character sequence.  str(path) is the record.      *)
(***************************************************************************)
File(dirs, stem, ext) == [dirs |-> dirs, stem |-> stem, ext |-> ext]

IsPrefix(a, b) == Len(a) <= Len(b) /\ SubSeq(b, 1, Len(a)) = a

\* base / path : an absolute right operand replaces the left one
path_join(base, path) ==
    IF path.dirs # <<>> /\ path.dirs[1] = "/" THEN path
    ELSE [path EXCEPT !.dirs = base \o path.dirs]

\* PurePath.relative_to(base): Optional[path], None for ValueError
path_relative_to(path, base) ==
    IF IsPrefix(base, path.dirs)
    THEN Some([path EXCEPT !.dirs = SubSeq(path.dirs, Len(base) + 1, Len(path.dirs))])
    ELSE None

\* Path(rel_path).suffix.lower().lstrip(".")
path_suffix_lower(path) == str_lower(path.ext)

RECURSIVE str_lstrip_dot(_)
str_lstrip_dot(s) ==
    IF s # <<>> /\ Head(s) = "." THEN str_lstrip_dot(Tail(s)) ELSE s

ExtJpg  == <<"j","p","g">>
ExtPng  == <<"p","n","g">>
ExtTxt  == <<"t","x","t">>
ExtPt   == <<"p","t">>

\* simpletuner.helpers.training.image_file_extensions, lower-cased
DEFAULT_EXTENSIONS == << ExtJpg, ExtPng >>

\* the directory tree: DataDir is a real directory, LinkDir a symbolic link to it,
\* and the process runs in "/", so that the relative path "data" names it too
DataDir == <<"/", "data">>
LinkDir == <<"/", "link">>
RelativeDir == <<"data">>
MissingDir == <<"/", "missing">>

DirExists(dir) == dir \in {DataDir, LinkDir, RelativeDir}

\* A directory entry: rel is its path below the directory, real what resolve() gives
\* for it (the entry itself, or the target of a symbolic link), content the bytes there.
Regular(rel, content) ==
    [rel |-> rel, real |-> path_join(DataDir, rel), content |-> content]
Symlink(rel, target) ==
    [rel |-> rel, real |-> target.real, content |-> target.content]

PhotoA == Regular(File(<<>>, "a", ExtJpg), <<1, 2>>)
PhotoB == Regular(File(<<"sub">>, "b", <<"J","P","G">>), <<3>>)
Notes  == Regular(File(<<>>, "notes", ExtTxt), <<4, 4, 4, 4>>)
PhotoMixed == Regular(File(<<>>, "c", <<"J","p","g">>), <<5>>)
Outside == [rel |-> File(<<>>, "o", ExtPng),
            real |-> File(<<"/", "other">>, "o", ExtPng), content |-> <<6>>]

Datasets ==
    { {},
      {PhotoA, PhotoB, Notes},
      {PhotoA, PhotoMixed},
      {PhotoA, Symlink(File(<<>>, "alias", ExtJpg), PhotoA)},
      {PhotoB, Outside} }

(***************************************************************************)
(* Compression.  A codec frames the payload: two header bytes, the data,   *)
(* and a one-byte checksum; decompressing checks the frame.                *)
(***************************************************************************)
RECURSIVE SumBytes(_)
SumBytes(data) == IF data = <<>> THEN 0 ELSE Head(data) + SumBytes(Tail(data))

Framed(header, data) == header \o data \o << SumBytes(data) % 251 >>

Unframed(header, data) ==
    LET n == Len(header)
        body == SubSeq(data, n + 1, Len(data) - 1)
    IN  IF Len(data) > n /\ SubSeq(data, 1, n) = header
           /\ data[Len(data)] = SumBytes(body) % 251
        THEN [error |-> "", data |-> body]
        ELSE [error |-> "DecompressError", data |-> <<>>]

ZlibHeader == <<120, 1>>
Lz4Header == <<4, 34>>
SnappyHeader == <<255, 6>>

CodecHeader(codec) ==
    CASE codec = "zlib" -> ZlibHeader
      [] codec = "lz4" -> Lz4Header
      [] OTHER -> SnappyHeader

NameZlib == <<"z","l","i","b">>
NameLz4 == <<"l","z","4">>
NameSnappy == <<"s","n","a","p","p","y">>

\* _resolve_compression(name): name is Optional[str].  codec "" stands for the
\* (None, None) pair of functions.
resolve_compression(name) ==
    IF IsNone(name) \/ name[1] = <<>>
    THEN [error |-> "", codec |-> "", name |-> "none"]
    ELSE LET normalized == str_lower(str_strip(name[1]))
         IN  IF normalized = NameZlib THEN [error |-> "", codec |-> "zlib", name |-> "zlib"]
             ELSE IF normalized = NameLz4 THEN [error |-> "", codec |-> "lz4", name |-> "lz4"]
             ELSE IF normalized = NameSnappy
             THEN [error |-> "", codec |-> "snappy", name |-> "snappy"]
             ELSE [error |-> "ValueError", codec |-> "", name |-> ""]

\* self._compress_fn(payload) if self._compress_fn else payload
compress(codec, payload) ==
    IF codec = "" THEN payload ELSE Framed(CodecHeader(codec), payload)

\* self._decompress_fn(data) if self._decompress_fn else data
decompress(codec, data) ==
    IF codec = "" THEN [error |-> "", data |-> data]
    ELSE Unframed(CodecHeader(codec), data)

(***************************************************************************)
(* self._storage: a dict, kept as the sequence of its items in insertion   *)
(* order.                                                                  *)
(***************************************************************************)
DictKeys(d) == {d[i].key : i \in DOMAIN d}

DictHas(d, k) == \E i \in DOMAIN d : d[i].key = k

DictIndex(d, k) == CHOOSE i \in DOMAIN d : d[i].key = k

DictGet(d, k) == d[DictIndex(d, k)].val

\* d[k] = v
DictSet(d, k, v) ==
    IF DictHas(d, k) THEN [d EXCEPT ![DictIndex(d, k)].val = v]
    ELSE Append(d, [key |-> k, val |-> v])

\* d.pop(k, None)
DictPop(d, k) ==
    IF DictHas(d, k)
    THEN LET i == DictIndex(d, k)
         IN  SubSeq(d, 1, i - 1) \o SubSeq(d, i + 1, Len(d))
    ELSE d

(***************************************************************************)
(* GH200InMemoryBackend.__init__ and the staging of the directory.         *)
(* memory_limit_gb is given in units of 2^-31 GB (half a byte), so that    *)
(* memory_limit_gb * 1024**3 is half the number and int() truncates it.    *)
(***************************************************************************)
memory_limit_bytes(memory_limit) ==
    IF IsNone(memory_limit) THEN None ELSE Some(memory_limit[1] \div 2)

normalize_extensions(file_extensions) ==
    LET given == IF IsNone(file_extensions) \/ file_extensions[1] = <<>>
                 THEN DEFAULT_EXTENSIONS ELSE file_extensions[1]
    IN  [i \in DOMAIN given |-> str_lstrip_dot(str_lower(given[i]))]

max_workers(num_workers) == IF num_workers > 1 THEN num_workers ELSE 1

\* lines 80-92: the fields, or the exception that ends the constructor
init_fields(args) ==
    LET c == resolve_compression(args.compression)
        fields == [instance_data_dir |-> args.instance_data_dir,
                   file_extensions |-> normalize_extensions(args.file_extensions),
                   codec |-> c.codec,
                   compression_name |-> c.name,
                   memory_limit_bytes |-> memory_limit_bytes(args.memory_limit),
                   num_workers |-> max_workers(args.num_workers)]
    IN  IF c.error # "" THEN [error |-> c.error, self |-> fields]
        ELSE IF ~DirExists(args.instance_data_dir)
        THEN [error |-> "FileNotFoundError", self |-> fields]
        ELSE [error |-> "", self |-> fields]

\* rglob("*.ext") and rglob("*.EXT") match the name case-sensitively
gather_files(self, entries) ==
    { e.real : e \in { x \in entries :
        \E i \in DOMAIN self.file_extensions :
            \/ x.rel.ext = self.file_extensions[i]
            \/ x.rel.ext = str_upper(self.file_extensions[i]) } }

\* the bytes at a resolved path
ContentAt(entries, real) == (CHOOSE e \in entries : e.real = real).content

RECURSIVE total_size(_, _)
total_size(entries, files) ==
    IF files = {} THEN 0
    ELSE LET f == CHOOSE x \in files : TRUE
         IN  Len(ContentAt(entries, f)) + total_size(entries, files \ {f})

\* if self._memory_limit_bytes and total_bytes > self._memory_limit_bytes
limit_exceeded(self, total_bytes) ==
    /\ ~IsNone(self.memory_limit_bytes)
    /\ self.memory_limit_bytes[1] # 0
    /\ total_bytes > self.memory_limit_bytes[1]

\* lines 235-245 of _load_dataset: the files to submit, or MemoryError
load_dataset_plan(self, entries) ==
    LET files == gather_files(self, entries)
    IN  IF files = {} THEN [error |-> "", files |-> {}]
        ELSE IF limit_exceeded(self, total_size(entries, files))
        THEN [error |-> "MemoryError", files |-> {}]
        ELSE [error |-> "", files |-> files]

\* _load_single_file(path): the file is read and compressed before its key is formed
load_single_file(self, entries, path) ==
    LET payload == compress(self.codec, ContentAt(entries, path))
        rel == path_relative_to(path, self.instance_data_dir)
    IN  IF IsNone(rel) THEN [error |-> "ValueError", key |-> path, payload |-> payload]
        ELSE [error |-> "", key |-> rel[1], payload |-> payload]

\* InMemoryBackendBuilder._create_backend: the constructor arguments taken from the
\* in_memory section of the configuration (cfg.present: the keys it holds)
create_backend(cfg) ==
    IF cfg.instance_data_dir = <<>>
    THEN [error |-> "ValueError", args |-> cfg.in_memory]
    ELSE [error |-> "",
          args |-> [instance_data_dir |-> cfg.instance_data_dir,
                    file_extensions |-> IF "file_extensions" \in cfg.present
                                        THEN cfg.in_memory.file_extensions ELSE None,
                    compression |-> IF "compression" \in cfg.present
                                    THEN cfg.in_memory.compression ELSE None,
                    memory_limit |-> IF "memory_limit_gb" \in cfg.present
                                     THEN cfg.in_memory.memory_limit ELSE None,
                    num_workers |-> IF "num_workers" \in cfg.present
                                    THEN cfg.in_memory.num_workers ELSE 32]]

(***************************************************************************)
(* The BaseDataBackend surface.  An operation yields                       *)
(*   [error, storage, data, stream, found, listing]                        *)
(* error "" for a normal return, storage the dict after the call.          *)
(***************************************************************************)
Result(err, dict, data, stream, found, listing) ==
    [error |-> err, storage |-> dict, data |-> data, stream |-> stream,
     found |-> found, listing |-> listing]

Fails(err, dict) == Result(err, dict, <<>>, FALSE, FALSE, <<>>)
Done(dict) == Result("", dict, <<>>, FALSE, FALSE, <<>>)

\* torch.save(obj, buffer); buffer.getvalue()
torch_serialize(bytes) == <<80, 75>> \o bytes

\* read that hands out the stored value as it is
read_without_decompress(self, dict, identifier, as_byte_io) ==
    IF ~DictHas(dict, identifier) THEN Fails("KeyError", dict)
    ELSE Result("", dict, DictGet(dict, identifier), as_byte_io, TRUE, <<>>)

read(self, dict, identifier, as_byte_io) ==
    IF ~DictHas(dict, identifier) THEN Fails("KeyError", dict)
    ELSE LET payload == decompress(self.codec, DictGet(dict, identifier))
         IN  IF payload.error # "" THEN Fails(payload.error, dict)
             ELSE Result("", dict, payload.data, as_byte_io, TRUE, <<>>)

\* data: [type, bytes] with type one of bytes, BytesIO, Tensor, str
write_drops_oldest(self, dict, identifier, data) ==
    IF data.type \notin {"bytes", "BytesIO", "Tensor"} THEN Fails("TypeError", dict)
    ELSE LET payload == IF data.type = "Tensor" THEN torch_serialize(data.bytes)
                        ELSE data.bytes
             kept == IF ~DictHas(dict, identifier) /\ Len(dict) >= 2
                     THEN Tail(dict) ELSE dict
         IN  Done(DictSet(kept, identifier, compress(self.codec, payload)))

write(self, dict, identifier, data) ==
    IF data.type \notin {"bytes", "BytesIO", "Tensor"} THEN Fails("TypeError", dict)
    ELSE LET payload == IF data.type = "Tensor" THEN torch_serialize(data.bytes)
                        ELSE data.bytes
         IN  Done(DictSet(dict, identifier, compress(self.codec, payload)))

delete(self, dict, identifier) == Done(DictPop(dict, identifier))

exists(self, dict, identifier) ==
    Result("", dict, <<>>, FALSE, DictHas(dict, identifier), <<>>)

\* mode: a set of characters
open_file(self, dict, identifier, mode) ==
    IF "r" \in mode /\ DictHas(dict, identifier)
    THEN LET payload == decompress(self.codec, DictGet(dict, identifier))
         IN  IF payload.error # "" THEN Fails(payload.error, dict)
             ELSE Result("", dict, payload.data, TRUE, TRUE, <<>>)
    ELSE Fails("NotImplementedError", dict)

\* one pass of the loop of list_files over the key rel_path
list_files_step(self, extensions, results, rel_path) ==
    IF extensions # {} /\ str_lstrip_dot(path_suffix_lower(rel_path)) \notin extensions
    THEN results
    ELSE LET parent == rel_path.dirs
             full == path_join(self.instance_data_dir, rel_path)
         IN  IF DictHas(results, parent)
             THEN DictSet(results, parent, Append(DictGet(results, parent), full))
             ELSE DictSet(results, parent, << full >>)

\* file_extensions: a sequence of strings, possibly empty
list_files_extensions(self, file_extensions) ==
    LET given == IF file_extensions = <<>> THEN self.file_extensions ELSE file_extensions
    IN  { str_lstrip_dot(str_lower(given[i])) : i \in DOMAIN given }

RECURSIVE list_files_loop(_, _, _, _)
list_files_loop(self, extensions, results, keys) ==
    IF keys = <<>> THEN results
    ELSE list_files_loop(self, extensions,
                         list_files_step(self, extensions, results, Head(keys).key),
                         Tail(keys))

list_files(self, dict, file_extensions) ==
    Result("", dict, <<>>, FALSE, FALSE,
           list_files_loop(self, list_files_extensions(self, file_extensions),
                           <<>>, dict))

\* _relative_key(path)
relative_key(self, path) ==
    LET rel == path_relative_to(path, self.instance_data_dir)
    IN  IF IsNone(rel) THEN path ELSE rel[1]

torch_save(self, dict, data, filename) ==
    write(self, dict, relative_key(self, filename),
          [type |-> "bytes", bytes |-> torch_serialize(data.bytes)])

\* write_batch(identifiers, files): zip stops at the shorter sequence, an exception
\* ends the loop with the earlier writes done
RECURSIVE write_batch(_, _, _, _)
write_batch(self, dict, identifiers, files) ==
    IF identifiers = <<>> \/ files = <<>> THEN Done(dict)
    ELSE LET payload == Head(files)
             first == IF payload.type = "Tensor"
                      THEN write(self, dict, relative_key(self, Head(identifiers)),
                                 [type |-> "bytes",
                                  bytes |-> torch_serialize(payload.bytes)])
                      ELSE write(self, dict, relative_key(self, Head(identifiers)),
                                 payload)
         IN  IF first.error # "" THEN first
             ELSE write_batch(self, first.storage, Tail(identifiers), Tail(files))

(***************************************************************************)
(* The backend as a state machine: construction, then calls from one       *)
(* thread.  A call is made when no result is pending.                      *)
(***************************************************************************)
MaxWrites == 2

NoBackend ==
    [instance_data_dir |-> <<>>, file_extensions |-> <<>>, codec |-> "",
     compression_name |-> "", memory_limit_bytes |-> None, num_workers |-> 0]

NoOp ==
    [op |-> "none", keys |-> {}, error |-> "", data |-> <<>>, stream |-> FALSE,
     found |-> FALSE, listing |-> <<>>]

Op(op, keys, r) ==
    [op |-> op, keys |-> keys, error |-> r.error, data |-> r.data, stream |-> r.stream,
     found |-> r.found, listing |-> r.listing]

NothingExpected == [k \in {} |-> <<>>]

NoRepresentation ==
    [backend_type |-> "", id |-> "", instance_data_dir |-> <<>>, file_extensions |-> <<>>,
     compression |-> <<>>, memory_limit_gb |-> None, num_workers |-> 0]

NotRestored ==
    [called |-> FALSE, given |-> NoRepresentation, error |-> "", id |-> "",
     self |-> NoBackend, files_read |-> 0, representation |-> NoRepresentation]

Put(exp, key, bytes) ==
    [k \in DOMAIN exp \cup {key} |-> IF k = key THEN bytes ELSE exp[k]]

Drop(exp, key) == [k \in DOMAIN exp \ {key} |-> exp[k]]

\* the bytes a caller hands over with a data object
RawBytes(data) ==
    IF data.type = "Tensor" THEN torch_serialize(data.bytes) ELSE data.bytes

RECURSIVE PutBatch(_, _, _, _)
PutBatch(exp, self, identifiers, files) ==
    IF identifiers = <<>> \/ files = <<>> THEN exp
    ELSE IF Head(files).type \notin {"bytes", "BytesIO", "Tensor"} THEN exp
    ELSE PutBatch(Put(exp, relative_key(self, Head(identifiers)), RawBytes(Head(files))),
                  self, Tail(identifiers), Tail(files))

ConstructorArgs ==
    [ instance_data_dir : {DataDir, RelativeDir, LinkDir, MissingDir},
      file_extensions : {None, Some(<< <<".","J","P","G">> >>)},
      compression : {None, Some(<<" ","Z","l","i","b">>), Some(<<"g","z","i","p">>)},
      memory_limit : {None, Some(0), Some(1), Some(5), Some(6)},
      num_workers : {0} ]

BuilderConfigs ==
    [ instance_data_dir : {<<>>, DataDir},
      present : {{}, {"file_extensions", "compression", "memory_limit_gb", "num_workers"}},
      in_memory : [ file_extensions : {Some(<< ExtPng >>)},
                    compression : {Some(NameZlib)},
                    memory_limit : {Some(4)},
                    num_workers : {4} ] ]

KeyA == File(<<>>, "a", ExtJpg)
PathA == File(DataDir, "a", ExtJpg)
KeyX == File(<<"cache">>, "x", ExtPt)

Identifiers == {KeyA, PathA, KeyX}

Bytes(b) == [type |-> "bytes", bytes |-> b]
DataValues ==
    { Bytes(<<>>), Bytes(<<9, 9, 9>>), [type |-> "BytesIO", bytes |-> <<7>>],
      [type |-> "Tensor", bytes |-> <<5>>], [type |-> "str", bytes |-> <<8>>] }

WriteBatches ==
    { [identifiers |-> << PathA, KeyX >>,
       files |-> << Bytes(<<9, 9, 9>>), [type |-> "Tensor", bytes |-> <<5>>] >>],
      [identifiers |-> << KeyX, KeyA >>,
       files |-> << Bytes(<<>>), [type |-> "str", bytes |-> <<8>>] >>],
      [identifiers |-> << KeyA, KeyX >>, files |-> << Bytes(<<7>>) >>] }

ListRequests == { <<>>, << <<".","P","T">> >>, << ExtJpg, ExtPt >> }

BackendInit ==
    /\ fs \in Datasets
    /\ backend = NoBackend
    /\ phase = "unbuilt"
    /\ error = ""
    /\ storage = <<>>
    /\ pending = {}
    /\ files_read = 0
    /\ expected = NothingExpected
    /\ lastOp = NoOp
    /\ writes = 0
    /\ restored = NotRestored

\* GH200InMemoryBackend(...) up to the submission of the loads
Construct(args) ==
    LET init == init_fields(args)
        plan == load_dataset_plan(init.self, fs)
    IN  /\ phase = "unbuilt"
        /\ backend' = init.self
        /\ IF init.error # ""
           THEN phase' = "failed" /\ error' = init.error /\ pending' = {}
           ELSE IF plan.error # ""
           THEN phase' = "failed" /\ error' = plan.error /\ pending' = {}
           ELSE IF plan.files = {}
           THEN phase' = "ready" /\ error' = "" /\ pending' = {}
           ELSE phase' = "loading" /\ error' = "" /\ pending' = plan.files
        /\ UNCHANGED <<fs, storage, files_read, expected, lastOp, writes>>
        /\ UNCHANGED <<uvmVars, concVars, diagVars, restored>>

\* InMemoryBackendBuilder._create_backend(config)
CreateBackend(cfg) ==
    LET made == create_backend(cfg)
    IN  /\ phase = "unbuilt"
        /\ IF made.error # ""
           THEN /\ phase' = "failed" /\ error' = made.error
                /\ UNCHANGED <<fs, backend, storage, pending, files_read, expected,
                               lastOp, writes>>
                /\ UNCHANGED <<uvmVars, concVars, diagVars, restored>>
           ELSE Construct(made.args)

\* one future completes and the constructor stores its result
StageFile(path) ==
    LET r == load_single_file(backend, fs, path)
    IN  /\ phase = "loading"
        /\ path \in pending
        /\ files_read' = files_read + 1
        /\ pending' = pending \ {path}
        /\ IF r.error # ""
           THEN /\ phase' = "failed" /\ error' = r.error
                /\ UNCHANGED <<storage, expected>>
           ELSE /\ storage' = DictSet(storage, r.key, r.payload)
                /\ expected' = Put(expected, r.key, ContentAt(fs, path))
                /\ UNCHANGED <<phase, error>>
        /\ UNCHANGED <<fs, backend, lastOp, writes>>
        /\ UNCHANGED <<uvmVars, concVars, diagVars, restored>>

\* every future is consumed: the executor is left and the constructor returns
FinishLoading ==
    /\ phase = "loading"
    /\ pending = {}
    /\ phase' = "ready"
    /\ UNCHANGED <<fs, backend, error, storage, pending, files_read, expected, lastOp,
                   writes>>
    /\ UNCHANGED <<uvmVars, concVars, diagVars, restored>>

Idle == phase = "ready" /\ lastOp = NoOp

Reads(op, keys, r) ==
    /\ Idle
    /\ lastOp' = Op(op, keys, r)
    /\ UNCHANGED <<fs, backend, phase, error, storage, pending, files_read, expected,
                   writes>>
    /\ UNCHANGED <<uvmVars, concVars, diagVars, restored>>

Read(identifier, as_byte_io) ==
    Reads("read", {identifier}, read(backend, storage, identifier, as_byte_io))

Exists(identifier) ==
    Reads("exists", {identifier}, exists(backend, storage, identifier))

OpenFile(identifier, mode) ==
    Reads("open_file", {identifier}, open_file(backend, storage, identifier, mode))

ListFiles(file_extensions) ==
    Reads("list_files", {}, list_files(backend, storage, file_extensions))

Writes(op, keys, r, exp) ==
    /\ Idle
    /\ writes < MaxWrites
    /\ writes' = writes + 1
    /\ storage' = r.storage
    /\ expected' = exp
    /\ lastOp' = Op(op, keys, r)
    /\ UNCHANGED <<fs, backend, phase, error, pending, files_read>>
    /\ UNCHANGED <<uvmVars, concVars, diagVars, restored>>

Write(identifier, data) ==
    LET r == write(backend, storage, identifier, data)
    IN  Writes("write", {identifier}, r,
               IF r.error = "" THEN Put(expected, identifier, RawBytes(data))
               ELSE expected)

Delete(identifier) ==
    Writes("delete", {identifier}, delete(backend, storage, identifier),
           Drop(expected, identifier))

TorchSave(data, filename) ==
    Writes("torch_save", {relative_key(backend, filename)},
           torch_save(backend, storage, data, filename),
           Put(expected, relative_key(backend, filename), torch_serialize(data.bytes)))

WriteBatch(b) ==
    Writes("write_batch",
           {relative_key(backend, b.identifiers[i]) : i \in DOMAIN b.identifiers},
           write_batch(backend, storage, b.identifiers, b.files),
           PutBatch(expected, backend, b.identifiers, b.files))

BackendReturn ==
    /\ lastOp # NoOp
    /\ lastOp' = NoOp
    /\ UNCHANGED <<fs, backend, phase, error, storage, pending, files_read, expected,
                   writes>>
    /\ UNCHANGED <<uvmVars, concVars, diagVars, restored>>

NextBackend ==
    \/ \E args \in ConstructorArgs : Construct(args)
    \/ \E cfg \in BuilderConfigs : CreateBackend(cfg)
    \/ \E path \in pending : StageFile(path)
    \/ FinishLoading
    \/ \E k \in Identifiers, as_byte_io \in BOOLEAN : Read(k, as_byte_io)
    \/ \E k \in Identifiers : Exists(k)
    \/ \E k \in Identifiers, mode \in {{"r"}, {"r", "b"}, {"w", "b"}} : OpenFile(k, mode)
    \/ \E request \in ListRequests : ListFiles(request)
    \/ \E k \in Identifiers, data \in DataValues : Write(k, data)
    \/ \E k \in Identifiers : Delete(k)
    \/ \E k \in Identifiers : TorchSave([type |-> "Tensor", bytes |-> <<5>>], k)
    \/ \E b \in WriteBatches : WriteBatch(b)
    \/ BackendReturn

(***************************************************************************)
(* Claims about the staging of the directory and the stored entries.       *)
(***************************************************************************)
\* the constructor got past the compression lookup and the existence check
Started ==
    /\ phase # "unbuilt"
    /\ backend # NoBackend
    /\ DirExists(backend.instance_data_dir)
    /\ ~(phase = "failed" /\ error \in {"ValueError", "FileNotFoundError"}
         /\ files_read = 0)

\* the entries of the directory whose extension is a configured one, in any case
Wanted ==
    { e \in fs : \E i \in DOMAIN backend.file_extensions :
                    str_lower(e.rel.ext) = backend.file_extensions[i] }

RECURSIVE dict_nbytes(_)
dict_nbytes(d) == IF d = <<>> THEN 0 ELSE Len(Head(d).val) + dict_nbytes(Tail(d))

StoredBytes == dict_nbytes(storage)

\* C4: when the constructor has returned normally, no load is outstanding and the
\* storage holds exactly one entry per file under instance_data_dir with a
\* configured extension (whatever its case, however the directory is named), under
\* the file's relative path, and reading it gives the file's bytes.
C4_EagerStaging ==
    (phase = "ready" /\ writes = 0) =>
        /\ pending = {}
        /\ DictKeys(storage) = { e.rel : e \in Wanted }
        /\ Len(storage) = Cardinality(Wanted)
        /\ \A e \in Wanted :
              LET r == read(backend, storage, e.rel, FALSE)
              IN  r.error = "" /\ r.data = e.content

\* C5 (state part): in every state after construction each staged or written key
\* that was not deleted since is present and reads back the payload of its last
\* write, and nothing else is present.
C5_Served ==
    phase = "ready" =>
        /\ DictKeys(storage) = DOMAIN expected
        /\ \A k \in DOMAIN expected :
              LET r == read(backend, storage, k, FALSE)
              IN  r.error = "" /\ r.data = expected[k]

Entry(d, k) == IF DictHas(d, k) THEN Some(DictGet(d, k)) ELSE None

C5_Frame ==
    phase = "ready" =>
        /\ lastOp'.op \in {"none", "read", "exists", "open_file", "list_files"}
              => storage' = storage
        /\ \A k \in DictKeys(storage) \cup DictKeys(storage') :
              k \notin lastOp'.keys => Entry(storage', k) = Entry(storage, k)

\* C5: no eviction.  After construction, across read, exists, open_file, list_files,
\* write, delete, write_batch and torch_save, every staged or written key stays
\* present with its last payload unless it was deleted, and a call changes only the
\* entries of the keys it writes or deletes.
C5_NoEviction == []C5_Served /\ [][C5_Frame]_vars

C5_Witness ==
    /\ phase = "ready"
    /\ writes = 2
    /\ lastOp.op = "write" /\ lastOp.error = "" /\ KeyX \in lastOp.keys
    /\ Len(storage) >= 3
    /\ KeyA \in DOMAIN expected /\ expected[KeyA] # PhotoA.content

\* C6: with a memory limit configured, the bytes held in the storage never exceed
\* the limit, in any state after construction and any writes and deletes.
C6_BoundedSize ==
    (phase = "ready" /\ ~IsNone(backend.memory_limit_bytes)) =>
        StoredBytes <= backend.memory_limit_bytes[1]

\* C7: with a limit configured (0 and fractions included) and a dataset whose raw
\* size exceeds int(memory_limit_gb * 1024^3), the constructor raises MemoryError
\* with no file read and the storage empty; otherwise it raises no MemoryError.
C7_LimitBeforeStaging ==
    Started =>
        LET total == total_size(fs, gather_files(backend, fs))
        IN  IF ~IsNone(backend.memory_limit_bytes)
               /\ total > backend.memory_limit_bytes[1]
            THEN /\ phase = "failed" /\ error = "MemoryError"
                 /\ files_read = 0 /\ storage = <<>>
            ELSE error # "MemoryError"

(***************************************************************************)
(* Two threads on one constructed backend.  The reader thread makes one    *)
(* reading call at a time, step by step as the interpreter interleaves it; *)
(* the writer thread makes one write or delete during that call.  A step   *)
(* is one access to the dict: the bytecodes between two accesses touch     *)
(* only locals of the thread.                                              *)
(***************************************************************************)
NoResult == Op("none", {}, Done(<<>>))

ReaderIdle ==
    [op |-> "none", pc |-> "idle", key |-> KeyA, mode |-> {}, request |-> <<>>,
     used |-> 0, pos |-> 0, results |-> <<>>, seen |-> {}, result |-> NoResult]

WriterIdle ==
    [op |-> "none", pc |-> "idle", key |-> KeyA, payload |-> <<>>]

\* the loop of _load_dataset storing the results in the order of completion
RECURSIVE staged(_, _, _)
staged(self, entries, order) ==
    IF order = <<>> THEN <<>>
    ELSE LET r == load_single_file(self, entries, order[Len(order)])
         IN  DictSet(staged(self, entries, SubSeq(order, 1, Len(order) - 1)),
                     r.key, r.payload)

StagedDataset == {PhotoA, PhotoB, Notes}

ConcInit ==
    /\ fs = StagedDataset
    /\ \E compression \in {None, Some(NameZlib)} :
          backend = init_fields([instance_data_dir |-> DataDir, file_extensions |-> None,
                                 compression |-> compression, memory_limit |-> None,
                                 num_workers |-> 16]).self
    /\ phase = "ready"
    /\ error = ""
    /\ storage \in { staged(backend, fs, << PhotoA.real, PhotoB.real >>),
                     staged(backend, fs, << PhotoB.real, PhotoA.real >>) }
    /\ pending = {}
    /\ files_read = 2
    /\ expected = Put(Put(NothingExpected, PhotoA.rel, PhotoA.content),
                      PhotoB.rel, PhotoB.content)
    /\ lastOp = NoOp
    /\ writes = 0
    /\ restored = NotRestored
    /\ reader = ReaderIdle
    /\ writer = WriterIdle
    /\ lock = ""

ConcFrame ==
    UNCHANGED <<uvmVars, diagVars, fs, backend, phase, error, pending, files_read,
                expected, lastOp, writes, restored>>

\* the reader thread enters read, exists, open_file or list_files
ReaderCall(op, key, mode, request) ==
    /\ reader.pc = "idle"
    /\ writer.pc = "idle"
    /\ reader' = [ReaderIdle EXCEPT !.op = op, !.pc = "called", !.key = key,
                                    !.mode = mode, !.request = request,
                                    !.seen = {storage}]
    /\ UNCHANGED <<storage, writer, lock>>
    /\ ConcFrame

Finished(r) ==
    [reader EXCEPT !.pc = "done", !.result = Op(reader.op, {reader.key}, r)]

\* read: data = self._storage[identifier], then the payload from the local
ReaderRead ==
    /\ reader.op = "read" /\ reader.pc = "called"
    /\ reader' = Finished(read(backend, storage, reader.key, FALSE))
    /\ UNCHANGED <<storage, writer, lock>>
    /\ ConcFrame

\* exists: identifier in self._storage
ReaderExists ==
    /\ reader.op = "exists" /\ reader.pc = "called"
    /\ reader' = Finished(exists(backend, storage, reader.key))
    /\ UNCHANGED <<storage, writer, lock>>
    /\ ConcFrame

\* open_file: the test "r" in mode and identifier in self._storage
ReaderOpenCheck ==
    /\ reader.op = "open_file" /\ reader.pc = "called"
    /\ IF "r" \in reader.mode /\ DictHas(storage, reader.key)
       THEN reader' = [reader EXCEPT !.pc = "found"]
       ELSE reader' = Finished(Fails("NotImplementedError", storage))
    /\ UNCHANGED <<storage, writer, lock>>
    /\ ConcFrame

\* open_file: payload = self._storage[identifier], then BytesIO of the payload
ReaderOpenLookup ==
    /\ reader.op = "open_file" /\ reader.pc = "found"
    /\ reader' = Finished(IF DictHas(storage, reader.key)
                          THEN open_file(backend, storage, reader.key, reader.mode)
                          ELSE Fails("KeyError", storage))
    /\ UNCHANGED <<storage, writer, lock>>
    /\ ConcFrame

\* list_files: iter(self._storage.keys()) records the number of items
ReaderListIter ==
    /\ reader.op = "list_files" /\ reader.pc = "called"
    /\ reader' = [reader EXCEPT !.pc = "iterating", !.used = Len(storage), !.pos = 0]
    /\ UNCHANGED <<storage, writer, lock>>
    /\ ConcFrame

\* list_files: one next() of the iterator and the body of the loop for its key
ReaderListNext ==
    /\ reader.op = "list_files" /\ reader.pc = "iterating"
    /\ IF Len(storage) # reader.used
       THEN reader' = Finished(Fails("RuntimeError", storage))
       ELSE IF reader.pos >= Len(storage)
       THEN reader' = Finished(Result("", storage, <<>>, FALSE, FALSE, reader.results))
       ELSE reader' =
               [reader EXCEPT !.pos = reader.pos + 1,
                              !.results = list_files_step(
                                  backend,
                                  list_files_extensions(backend, reader.request),
                                  reader.results, storage[reader.pos + 1].key)]
    /\ UNCHANGED <<storage, writer, lock>>
    /\ ConcFrame

ReaderReturn ==
    /\ reader.pc = "done"
    /\ writer.pc = "idle"
    /\ reader' = ReaderIdle
    /\ UNCHANGED <<storage, writer, lock>>
    /\ ConcFrame

\* the writer thread enters write (payload prepared from the argument) or delete
WriterCall(op, key, data) ==
    /\ writer.pc = "idle"
    /\ reader.pc # "idle"
    /\ Cardinality(reader.seen) = 1
    /\ writer' = [op |-> op, pc |-> "called", key |-> key,
                  payload |-> compress(backend.codec, RawBytes(data))]
    /\ UNCHANGED <<storage, reader, lock>>
    /\ ConcFrame

\* with self._lock:
WriterAcquire ==
    /\ writer.pc = "called"
    /\ lock = ""
    /\ lock' = "writer"
    /\ writer' = [writer EXCEPT !.pc = "locked"]
    /\ UNCHANGED <<storage, reader>>
    /\ ConcFrame

\* self._storage[identifier] = payload, or self._storage.pop(identifier, None).
\* An iterator keeps its place among the remaining items when an earlier one goes.
WriterUpdate ==
    /\ writer.pc = "locked"
    /\ storage' = IF writer.op = "write"
                  THEN DictSet(storage, writer.key, writer.payload)
                  ELSE DictPop(storage, writer.key)
    /\ writer' = [writer EXCEPT !.pc = "updated"]
    /\ reader' = [reader EXCEPT
                     !.seen = IF reader.pc = "done" THEN @ ELSE @ \cup {storage'},
                     !.pos = IF /\ writer.op = "delete"
                                /\ DictHas(storage, writer.key)
                                /\ DictIndex(storage, writer.key) <= @
                             THEN @ - 1 ELSE @]
    /\ UNCHANGED lock
    /\ ConcFrame

\* the with block is left
WriterRelease ==
    /\ writer.pc = "updated"
    /\ lock' = ""
    /\ writer' = WriterIdle
    /\ UNCHANGED <<storage, reader>>
    /\ ConcFrame

NextConc ==
    \/ \E op \in {"read", "exists"}, k \in Identifiers :
          ReaderCall(op, k, {}, <<>>)
    \/ \E k \in Identifiers, mode \in {{"r", "b"}, {"w", "b"}} :
          ReaderCall("open_file", k, mode, <<>>)
    \/ \E request \in ListRequests : ReaderCall("list_files", KeyA, {}, request)
    \/ ReaderRead
    \/ ReaderExists
    \/ ReaderOpenCheck
    \/ ReaderOpenLookup
    \/ ReaderListIter
    \/ ReaderListNext
    \/ ReaderReturn
    \/ \E k \in {KeyA, KeyX} : WriterCall("write", k, Bytes(<<9, 9, 9>>))
    \/ \E k \in {KeyA, KeyX} : WriterCall("delete", k, Bytes(<<>>))
    \/ WriterAcquire
    \/ WriterUpdate
    \/ WriterRelease

\* what the reader's call gives when it runs alone on the dict d
Alone(d) ==
    CASE reader.op = "read" -> read(backend, d, reader.key, FALSE)
      [] reader.op = "exists" -> exists(backend, d, reader.key)
      [] reader.op = "open_file" -> open_file(backend, d, reader.key, reader.mode)
      [] OTHER -> list_files(backend, d, reader.request)

\* C8: a reading call that overlaps a write or delete of another thread never
\* fails because of the overlap (no RuntimeError from list_files, no KeyError from
\* open_file on a key it found) and returns what it would return on the storage
\* before or after the update.
C8_Coordinated ==
    reader.pc = "done" =>
        \E d \in reader.seen : reader.result = Op(reader.op, {reader.key}, Alone(d))

(***************************************************************************)
(* gh200_diagnostic.compile_report and test_uvm_allocation, statement by   *)
(* statement.  Sizes are in GB, times in seconds, a finite scale is a      *)
(* number of tenths; nan and inf are the other floats float() accepts.     *)
(* events is the sequence of torch calls made so far.                      *)
(***************************************************************************)
Float(kind, tenths) == [kind |-> kind, tenths |-> tenths]

Scales ==
    { Float("finite", 12), Float("finite", 5), Float("finite", 0), Float("finite", -10),
      Float("nan", 0), Float("inf", 0) }

TotalMemory == {4, 10}

\* int(x) for x = n / 10: truncation towards zero
int_tenths(n) == IF n >= 0 THEN n \div 10 ELSE -((-n) \div 10)

\* round(q, 2) of q = n / d, in hundredths
round_hundredths(n, d) == (200 * n + d) \div (2 * d)

NoResults ==
    [keys |-> {}, requested_scale |-> Float("finite", 0), status |-> "", error |-> "",
     allocated_gb |-> 0, allocation_time_s |-> 0, fill_bandwidth_gbps |-> None]

DiagIdleState ==
    [pc |-> "idle", quota_scale |-> Float("finite", 0), skip_allocation |-> FALSE,
     is_available |-> FALSE, total_memory |-> 0, target_bytes |-> 0,
     allocation_raised |-> FALSE, tensor |-> "unbound", raised |-> "",
     events |-> <<>>, results |-> NoResults, report |-> {}]

DiagFrame == UNCHANGED <<uvmVars, backendVars, concVars>>

DiagInit == diag = DiagIdleState

\* compile_report(quota_scale, skip_allocation): the report before the test
CompileReport(quota_scale, skip_allocation, is_available, total_memory) ==
    /\ diag.pc = "idle"
    /\ diag' = [DiagIdleState EXCEPT
                   !.pc = IF skip_allocation THEN "returned" ELSE "test",
                   !.quota_scale = quota_scale,
                   !.skip_allocation = skip_allocation,
                   !.is_available = is_available,
                   !.total_memory = total_memory,
                   !.report = {"uvm", "system", "torch_version"}]
    /\ DiagFrame

\* test_uvm_allocation, lines 86-89
TestEnter ==
    /\ diag.pc = "test"
    /\ LET results == [NoResults EXCEPT !.keys = {"requested_scale"},
                                        !.requested_scale = diag.quota_scale]
       IN  diag' = IF ~diag.is_available
                   THEN [diag EXCEPT !.pc = "test_returned",
                                     !.results = [results EXCEPT
                                                     !.keys = @ \cup {"status"},
                                                     !.status = "cuda_unavailable"]]
                   ELSE [diag EXCEPT !.pc = "target", !.results = results]
    /\ DiagFrame

\* lines 91-96: int() of a NaN raises ValueError, of an infinity OverflowError
TestTarget ==
    /\ diag.pc = "target"
    /\ diag' = IF diag.quota_scale.kind = "nan"
               THEN [diag EXCEPT !.pc = "raised", !.raised = "ValueError"]
               ELSE IF diag.quota_scale.kind = "inf"
               THEN [diag EXCEPT !.pc = "raised", !.raised = "OverflowError"]
               ELSE [diag EXCEPT
                        !.pc = "allocate",
                        !.target_bytes = int_tenths(diag.total_memory * diag.quota_scale.tenths),
                        !.events = @ \o << "empty_cache", "synchronize" >>]
    /\ DiagFrame

\* lines 98-106: torch.empty raises RuntimeError for a negative size, and may raise
\* it (out of memory) for any other
TestAllocate(out_of_memory) ==
    /\ diag.pc = "allocate"
    /\ diag' = IF diag.target_bytes < 0 \/ out_of_memory
               THEN [diag EXCEPT
                        !.pc = "test_returned",
                        !.allocation_raised = TRUE,
                        !.events = Append(@, "empty"),
                        !.results = [@ EXCEPT !.keys = @ \cup {"status", "error"},
                                              !.status = "failed",
                                              !.error = "RuntimeError"]]
               ELSE [diag EXCEPT !.pc = "allocated",
                                 !.tensor = "bound",
                                 !.events = Append(@, "empty")]
    /\ DiagFrame

\* lines 106-114
TestRecord(alloc_time) ==
    /\ diag.pc = "allocated"
    /\ diag' = [diag EXCEPT
                   !.pc = "fill",
                   !.results = [@ EXCEPT
                       !.keys = @ \cup {"status", "allocated_gb", "allocation_time_s"},
                       !.status = "success",
                       !.allocated_gb = round_hundredths(diag.target_bytes, 1),
                       !.allocation_time_s = alloc_time]]
    /\ DiagFrame

\* lines 116-121
TestFill(fill_time) ==
    /\ diag.pc = "fill"
    /\ diag' = [diag EXCEPT
                   !.pc = "release",
                   !.events = @ \o << "fill_", "synchronize" >>,
                   !.results = [@ EXCEPT
                       !.keys = @ \cup {"fill_bandwidth_gbps"},
                       !.fill_bandwidth_gbps =
                           IF fill_time # 0
                           THEN Some(round_hundredths(diag.target_bytes, fill_time))
                           ELSE None]]
    /\ DiagFrame

\* lines 123-125
TestRelease ==
    /\ diag.pc = "release"
    /\ diag' = [diag EXCEPT !.pc = "test_returned",
                            !.tensor = "deleted",
                            !.events = Append(@, "empty_cache")]
    /\ DiagFrame

\* line 135: report["uvm_allocation_test"] = ...
ReportTest ==
    /\ diag.pc = "test_returned"
    /\ diag' = [diag EXCEPT !.pc = "returned",
                            !.report = @ \cup {"uvm_allocation_test"}]
    /\ DiagFrame

\* the caller has the report, or the exception
DiagDone ==
    /\ diag.pc \in {"returned", "raised"}
    /\ diag' = DiagIdleState
    /\ DiagFrame

NextDiag ==
    \/ \E quota_scale \in Scales, skip_allocation \in BOOLEAN, is_available \in BOOLEAN,
          total_memory \in TotalMemory :
          CompileReport(quota_scale, skip_allocation, is_available, total_memory)
    \/ TestEnter
    \/ TestTarget
    \/ \E out_of_memory \in BOOLEAN : TestAllocate(out_of_memory)
    \/ \E alloc_time \in {0, 3} : TestRecord(alloc_time)
    \/ \E fill_time \in {0, 3, 7} : TestFill(fill_time)
    \/ TestRelease
    \/ ReportTest
    \/ DiagDone

Position(events, name) ==
    IF \E i \in DOMAIN events : events[i] = name
    THEN CHOOSE i \in DOMAIN events : events[i] = name
    ELSE 0

\* C10: the allocation test always ends with one of three statuses:
\* cuda_unavailable, nothing allocated, exactly when CUDA is unavailable; failed with
\* an error, nothing filled, exactly when the allocation raised RuntimeError; success
\* otherwise, the fill after the allocation, the tensor released, and allocated_gb,
\* allocation_time_s and fill_bandwidth_gbps in the result.  The report holds
\* uvm_allocation_test exactly when skip_allocation is false.
C10_ThreeOutcomes ==
    /\ (diag.pc \in {"test_returned", "raised"}) =>
          LET results == diag.results
          IN  /\ diag.raised = ""
              /\ "status" \in results.keys
              /\ results.status \in {"cuda_unavailable", "failed", "success"}
              /\ results.status = "cuda_unavailable" <=> ~diag.is_available
              /\ results.status = "cuda_unavailable" => Position(diag.events, "empty") = 0
              /\ results.status = "failed" <=> diag.allocation_raised
              /\ results.status = "failed" =>
                    "error" \in results.keys /\ Position(diag.events, "fill_") = 0
              /\ results.status = "success" =>
                    /\ 0 < Position(diag.events, "empty")
                    /\ Position(diag.events, "empty") < Position(diag.events, "fill_")
                    /\ diag.tensor = "deleted"
                    /\ {"allocated_gb", "allocation_time_s", "fill_bandwidth_gbps"}
                          \subseteq results.keys
    /\ diag.pc = "returned" =>
          ("uvm_allocation_test" \in diag.report <=> ~diag.skip_allocation)

(***************************************************************************)
(* Writing and reading back under each compression setting.                *)
(***************************************************************************)
CodecArgs ==
    [ instance_data_dir : {DataDir},
      file_extensions : {None},
      compression : {None, Some(<<>>), Some(NameZlib), Some(<<"L","Z","4"," ">>),
                     Some(NameSnappy)},
      memory_limit : {None},
      num_workers : {16} ]

CodecInit ==
    /\ BackendInit
    /\ fs \in {{}, StagedDataset}

NextCodec ==
    \/ \E args \in CodecArgs : Construct(args)
    \/ \E path \in pending : StageFile(path)
    \/ FinishLoading
    \/ \E k \in Identifiers, as_byte_io \in BOOLEAN : Read(k, as_byte_io)
    \/ \E k \in Identifiers : Exists(k)
    \/ \E k \in Identifiers, mode \in {{"r"}, {"r", "b"}} : OpenFile(k, mode)
    \/ \E k \in Identifiers, data \in DataValues : Write(k, data)
    \/ \E k \in Identifiers : Delete(k)
    \/ BackendReturn

\* k holds the payload d: what exists, read, read(as_byte_io=True) and open_file(k, "r")
\* give, and the form of the stored value
RoundTrip(k, d) ==
    LET plain == read(backend, storage, k, FALSE)
        stream == read(backend, storage, k, TRUE)
        opened == open_file(backend, storage, k, {"r"})
    IN  /\ exists(backend, storage, k).found
        /\ plain.error = "" /\ ~plain.stream /\ plain.data = d
        /\ stream.error = "" /\ stream.stream /\ stream.data = d
        /\ opened.error = "" /\ opened.stream /\ opened.data = d
        /\ IF backend.codec = ""
           THEN DictGet(storage, k) = d
           ELSE DictGet(storage, k) = compress(backend.codec, d) /\ DictGet(storage, k) # d

\* C11: under every compression setting (none, zlib, lz4, snappy), a key written with
\* a bytes or BytesIO payload and not written or deleted since exists, reads back
\* exactly those bytes, as bytes and as a stream from read and open_file, and is
\* stored compressed only when a compression is configured.
C11_WriteReadRoundTrip ==
    phase = "ready" => \A k \in DOMAIN expected : RoundTrip(k, expected[k])

C11_Witness ==
    /\ phase = "ready"
    /\ backend.codec = "lz4"
    /\ writes = 2
    /\ lastOp.op = "read" /\ lastOp.keys = {KeyX} /\ lastOp.stream
    /\ lastOp.data = <<7>>
    /\ KeyX \in DOMAIN expected /\ expected[KeyX] = <<7>>

(***************************************************************************)
(* The instance representation.  memory_limit_gb is in the unit of the     *)
(* constructor argument (2^-31 GB): bytes / 1024**3 is exact in floating   *)
(* point, so it is twice the number of bytes.                              *)
(***************************************************************************)
\* the characters of self._compression_name
compression_name_chars(name) ==
    CASE name = "none" -> <<"n","o","n","e">>
      [] name = "zlib" -> NameZlib
      [] name = "lz4" -> NameLz4
      [] OTHER -> NameSnappy

get_instance_representation(id, self) ==
    [backend_type |-> "in_memory",
     id |-> id,
     instance_data_dir |-> self.instance_data_dir,
     file_extensions |-> self.file_extensions,
     compression |-> compression_name_chars(self.compression_name),
     memory_limit_gb |-> IF IsNone(self.memory_limit_bytes) THEN None
                         ELSE Some(2 * self.memory_limit_bytes[1]),
     num_workers |-> self.num_workers]

\* __init__ run to its end on the directory entries: the exception it raises, the
\* fields it has set and the number of files its workers read
construct(args, entries) ==
    LET init == init_fields(args)
        plan == load_dataset_plan(init.self, entries)
        bad == { f \in plan.files : load_single_file(init.self, entries, f).error # "" }
    IN  IF init.error # "" THEN [error |-> init.error, self |-> init.self, files_read |-> 0]
        ELSE IF plan.error # ""
        THEN [error |-> plan.error, self |-> init.self, files_read |-> 0]
        ELSE IF bad # {}
        THEN [error |-> "ValueError", self |-> init.self,
              files_read |-> Cardinality(plan.files)]
        ELSE [error |-> "", self |-> init.self, files_read |-> Cardinality(plan.files)]

from_instance_representation(representation, entries) ==
    IF representation.backend_type # "in_memory"
    THEN [error |-> "ValueError", id |-> "", self |-> NoBackend, files_read |-> 0]
    ELSE LET made == construct([instance_data_dir |-> representation.instance_data_dir,
                                file_extensions |-> Some(representation.file_extensions),
                                compression |-> Some(representation.compression),
                                memory_limit |-> representation.memory_limit_gb,
                                num_workers |-> representation.num_workers],
                               entries)
         IN  [error |-> made.error, id |-> representation.id, self |-> made.self,
              files_read |-> made.files_read]

BackendIds == {"train", "validation"}

ReprArgs ==
    [ instance_data_dir : {DataDir},
      file_extensions : {None, Some(<< <<".","J","P","G">> >>)},
      compression : {None, Some(<<" ","Z","l","i","b">>), Some(NameSnappy)},
      memory_limit : {None, Some(0), Some(7), Some(20)},
      num_workers : {0, 16} ]

ReprFrame ==
    UNCHANGED <<uvmVars, concVars, diagVars, fs, backend, phase, error, storage, pending,
                files_read, expected, lastOp, writes>>

Restored(given) ==
    LET r == from_instance_representation(given, fs)
    IN  [called |-> TRUE, given |-> given, error |-> r.error, id |-> r.id,
         self |-> r.self, files_read |-> r.files_read,
         representation |-> IF r.error = ""
                            THEN get_instance_representation(r.id, r.self)
                            ELSE NoRepresentation]

\* from_instance_representation(b.get_instance_representation()); id is b.id, a
\* field no method but get_instance_representation reads
RoundTripRepresentation(id) ==
    /\ phase = "ready"
    /\ ~restored.called
    /\ restored' = Restored(get_instance_representation(id, backend))
    /\ ReprFrame

\* from_instance_representation of a representation written by another backend type
RestoreForeign(id, backend_type) ==
    /\ phase = "ready"
    /\ ~restored.called
    /\ restored' = Restored([get_instance_representation(id, backend)
                                EXCEPT !.backend_type = backend_type])
    /\ ReprFrame

RestoreReturn ==
    /\ restored.called
    /\ restored' = NotRestored
    /\ ReprFrame

NextRepr ==
    \/ \E args \in ReprArgs : Construct(args)
    \/ \E path \in pending : StageFile(path)
    \/ FinishLoading
    \/ \E id \in BackendIds : RoundTripRepresentation(id)
    \/ \E id \in BackendIds, backend_type \in {"local", "aws"} :
          RestoreForeign(id, backend_type)
    \/ RestoreReturn

\* C12: for every constructed backend b, with or without compression,
\* from_instance_representation(b.get_instance_representation()) succeeds and gives a
\* backend with the same id, directory, extensions, compression, memory limit and
\* worker count and an equal representation; a representation of another
\* backend_type is rejected with ValueError before anything is loaded.
C12_RepresentationRoundTrip ==
    restored.called =>
        IF restored.given.backend_type = "in_memory"
        THEN /\ restored.error = ""
             /\ restored.id = restored.given.id
             /\ restored.self = backend
             /\ restored.representation = restored.given
        ELSE /\ restored.error = "ValueError"
             /\ restored.files_read = 0

(***************************************************************************)
(* Claim about the names list_files gives and the names exists and read    *)
(* take.                                                                   *)
(***************************************************************************)
\* the places of the listing where the path p stands under the folder parent
ListedAt(listing, parent, p) ==
    { <<i, j>> \in (DOMAIN listing) \X (1..Len(storage)) :
        /\ listing[i].key = parent
        /\ j \in DOMAIN listing[i].val
        /\ listing[i].val[j] = p }

\* C13: in every state of a constructed backend, every path p that list_files
\* returns satisfies exists(p), and read(p) gives the content of the entry p was
\* listed for; every stored key whose extension is a requested one (a configured
\* one when none is requested), in any case, is listed once under its parent.
C13_NamingAgreement ==
    phase = "ready" =>
        \A request \in ListRequests :
            LET listing == list_files(backend, storage, request).listing
                extensions == list_files_extensions(backend, request)
            IN  /\ \A i \in DOMAIN listing : \A j \in DOMAIN listing[i].val :
                      LET p == listing[i].val[j]
                      IN  /\ exists(backend, storage, p).found
                          /\ \E k \in DictKeys(storage) :
                                /\ path_join(backend.instance_data_dir, k) = p
                                /\ k.dirs = listing[i].key
                                /\ read(backend, storage, p, FALSE)
                                      = read(backend, storage, k, FALSE)
                /\ \A k \in DictKeys(storage) :
                      str_lower(k.ext) \in extensions =>
                          Cardinality(ListedAt(listing, k.dirs,
                              path_join(backend.instance_data_dir, k))) = 1

(***************************************************************************)
(* Specifications.                                                         *)
(***************************************************************************)
UvmIdle ==
    /\ uvm_hint_override = None
    /\ last_override_arg = None
    /\ environ = None
    /\ torch_cuda = [is_available |-> FALSE, has_memory_advise |-> FALSE,
                     has_cudart |-> FALSE, current_device |-> 0]
    /\ batch = EmptyBatch
    /\ lastCall = NoCall

BackendIdle ==
    /\ fs = {}
    /\ backend = NoBackend
    /\ phase = "unbuilt"
    /\ error = ""
    /\ storage = <<>>
    /\ pending = {}
    /\ files_read = 0
    /\ expected = NothingExpected
    /\ lastOp = NoOp
    /\ writes = 0
    /\ restored = NotRestored

ConcIdle ==
    /\ reader = ReaderIdle
    /\ writer = WriterIdle
    /\ lock = ""

DiagIdle == diag = DiagIdleState

InitFlag == UvmInit /\ BackendIdle /\ ConcIdle /\ DiagIdle
SpecFlag == InitFlag /\ [][NextFlag]_vars

InitUvm == UvmInit /\ BackendIdle /\ ConcIdle /\ DiagIdle
SpecUvm == InitUvm /\ [][NextUvm]_vars

InitBackend == UvmIdle /\ BackendInit /\ ConcIdle /\ DiagIdle
SpecBackend == InitBackend /\ [][NextBackend]_vars

InitConc == UvmIdle /\ ConcInit /\ DiagIdle
SpecConc == InitConc /\ [][NextConc]_vars

InitDiag == UvmIdle /\ BackendIdle /\ ConcIdle /\ DiagInit
SpecDiag == InitDiag /\ [][NextDiag]_vars

InitCodec == UvmIdle /\ CodecInit /\ ConcIdle /\ DiagIdle
SpecCodec == InitCodec /\ [][NextCodec]_vars

InitRepr == UvmIdle /\ BackendInit /\ ConcIdle /\ DiagIdle
SpecRepr == InitRepr /\ [][NextRepr]_vars

====
